---- MODULE Spec2Model ----
(***************************************************************************)
(* Order settlement core of the KissanMart backend: checkout, inventory    *)
(* signals, order totals, the order status writers and the admin           *)
(* cancellation/refund flow.  Money is kept in paise (1/100 rupee),        *)
(* quantities in whole units.  The database is a relational store with     *)
(* row locks (READ COMMITTED): a plain read sees the last committed value, *)
(* select_for_update and UPDATE wait for the row lock, and a transaction's *)
(* writes become visible when it commits.                                  *)
(***************************************************************************)
EXTENDS Integers, Sequences, FiniteSets, TLC

\* ------------------------------------------------------------------ bounds
InitStock == 5
MaxQty == 3
MaxHist == 6
MaxStock == 6
MaxUpdates == 3
MaxEvents == 4
MaxTokens == 3

\* ------------------------------------------------------------- the catalog
Products == {"p1", "p2"}

\* Each checkout request is served by one worker and creates at most one
\* order; the worker and the order share their identifier.
OrderIds == {1, 2}

price_per_unit == [p \in Products |-> IF p = "p1" THEN 20000 ELSE 30000]

PAYMENT_METHOD_CHOICES == {"upi", "cod"}

ORDER_STATUS_CHOICES ==
    {"pending", "confirmed", "processing", "packed", "shipped",
     "in_transit", "delivered", "cancelled", "refunded", "failed"}

\* --------------------------------------------------------------- variables
VARIABLES
    quantity_available,   \* Product.quantity_available, committed value
    baseline,             \* quantity_available of every product at start
    orders,               \* committed Order rows
    items,                \* committed OrderItem quantities, per order/product
    item_status,          \* committed OrderItem.item_status
    history,              \* committed OrderStatusHistory, per order
    creq,                 \* committed OrderCancellationRequest, per order
    refunds,              \* committed OrderRefund.refund_amount, -1 when absent
    proc,                 \* the checkout workers
    requesting,           \* the cancellation-request workers
    admins,               \* the admin process-refund workers
    shiprocket,           \* the carrier client: token cache and request in flight
    resp                  \* the response of the last finished operation

vars == <<quantity_available, baseline, orders, items, item_status,
          history, creq, refunds, proc, requesting, admins, shiprocket, resp>>

\* ------------------------------------------------------------------ helpers
Max(a, b) == IF a >= b THEN a ELSE b

RECURSIVE SumOver(_, _)
SumOver(f, S) ==
    IF S = {} THEN 0
    ELSE LET x == CHOOSE y \in S : TRUE IN f[x] + SumOver(f, S \ {x})

Item == [product : Products, quantity : 1..MaxQty]

\* validate_items: at least one item, no product twice
ItemLists ==
    {s \in UNION {[1..n -> Item] : n \in 1..Cardinality(Products)} :
        \A i, j \in DOMAIN s : i # j => s[i].product # s[j].product}

NoOrder ==
    [status |-> "none", payment_method |-> "none", payment_status |-> "none",
     subtotal |-> 0, shipping_charges |-> 0, tax_amount |-> 0,
     discount_amount |-> 0, platform_fee |-> 0, razorpay_fee |-> 0,
     total_amount |-> 0,
     razorpay_order_id |-> FALSE, razorpay_payment_id |-> FALSE,
     shiprocket_order_id |-> FALSE]

NoRequest ==
    [request_status |-> "none", refund_amount |-> 0,
     razorpay_fee_deduction |-> 0, platform_fee_deduction |-> 0,
     final_refund_amount |-> 0, razorpay_refund_id |-> FALSE,
     shiprocket_cancelled |-> FALSE]

IdleProc ==
    [pc |-> "idle", method |-> "none", req |-> <<>>, idx |-> 0,
     asked |-> [p \in Products |-> 0],
     snap |-> [p \in Products |-> 0],
     pending |-> [p \in Products |-> -1],
     result |-> "none"]

\* The requests CreateCancellationRequestView serves at the same time; each
\* holds the order whose request it has validated and not yet saved
Requesters == {1, 2}
NotRequesting == 0

\* The requests AdminProcessRefundView serves at the same time; each holds
\* the cancellation request and order it has loaded and validated, and
\* whether it has called the gateway's refund
Admins == {1, 2}

IdleAdmin ==
    [pc |-> "idle", order |-> 0, cancellation_request |-> NoRequest,
     order_loaded |-> NoOrder, rpd |-> 0, pfd |-> 0, final |-> 0,
     refund_called |-> FALSE]

\* ShiprocketService: cache[TOKEN_CACHE_KEY] (0 when empty; tokens are numbered
\* in the order auth/login issues them), and the _make_request in flight with
\* the token and the status code of every HTTP attempt it has made
NoRequestInFlight ==
    [cache |-> 0, issued |-> 0, pc |-> "idle", method |-> "none", token |-> 0,
     sent |-> <<>>, statuses |-> <<>>, logins |-> 0, result |-> "none"]

NoResp == [op |-> "none", order |-> 0, ok |-> FALSE, code |-> "none"]

Response(op, o, ok, code) == [op |-> op, order |-> o, ok |-> ok, code |-> code]

Entry(status, title) == [status |-> status, title |-> title]

Exists(o) == orders[o].status # "none"

\* Histories are cut off at MaxHist entries
Room(o, n) == Len(history[o]) + n <= MaxHist

\* A worker inside its transaction holds the row lock of every product whose
\* OrderItem it has already created; the locks are released at commit/rollback.
Holds(c, p) ==
    /\ proc[c].pc = "create"
    /\ \E i \in 1..(proc[c].idx - 1) : proc[c].req[i].product = p

Locked(p) == \E c \in OrderIds : Holds(c, p)

\* --------------------------------------------------------------------- Init
Init ==
    /\ quantity_available = [p \in Products |-> InitStock]
    /\ baseline = [p \in Products |-> InitStock]
    /\ orders = [o \in OrderIds |-> NoOrder]
    /\ items = [o \in OrderIds |-> [p \in Products |-> 0]]
    /\ item_status = [o \in OrderIds |-> [p \in Products |-> "none"]]
    /\ history = [o \in OrderIds |-> <<>>]
    /\ creq = [o \in OrderIds |-> NoRequest]
    /\ refunds = [o \in OrderIds |-> -1]
    /\ proc = [c \in OrderIds |-> IdleProc]
    /\ requesting = [w \in Requesters |-> NotRequesting]
    /\ admins = [w \in Admins |-> IdleAdmin]
    /\ shiprocket = NoRequestInFlight
    /\ resp = NoResp

\* ---------------------------------------------------------------- totals
\* Decimal.quantize(Decimal('0.01')) of num/den paise under the default
\* decimal context, whose rounding mode is ROUND_HALF_EVEN.
Quantize(num, den) ==
    LET q == num \div den
        r == num % den
    IN  IF 2 * r < den THEN q
        ELSE IF 2 * r > den THEN q + 1
        ELSE IF q % 2 = 0 THEN q ELSE q + 1

\* PaymentModeCharge.get_percentage_for_mode: admin-configured percentage
\* per payment mode, in hundredths of a percent.
get_percentage_for_mode(mode) == IF mode = "upi" THEN 200 ELSE 0

FREE_SHIPPING_ABOVE == 50000
FLAT_SHIPPING == 5000

Shipping_free_at_threshold(subtotal) ==
    IF subtotal >= FREE_SHIPPING_ABOVE THEN 0 ELSE FLAT_SHIPPING

Shipping(subtotal) == IF subtotal > FREE_SHIPPING_ABOVE THEN 0 ELSE FLAT_SHIPPING

PlatformFee(method, base) ==
    IF method # "cod"
    THEN Quantize(base * get_percentage_for_mode(method), 10000)
    ELSE 0

\* OrderItem.save: total_price = quantity * unit_price
total_price(p, qty) == qty * price_per_unit[p]

ItemsSubtotal(its) == SumOver([p \in Products |-> total_price(p, its[p])], Products)

\* Order.calculate_totals, run by Order.save when total_amount is falsy
calculate_totals(ord, its) ==
    LET sub == ItemsSubtotal(its)
        ship == Shipping(sub)
    IN  [ord EXCEPT !.subtotal = sub, !.shipping_charges = ship,
                    !.total_amount = sub + ship + ord.tax_amount - ord.discount_amount]

Order_save(ord, its) ==
    IF ord.total_amount = 0 THEN calculate_totals(ord, its) ELSE ord

\* The totals block of OrderCreateSerializer.create
CheckoutTotals(ord, sub) ==
    LET ship == Shipping(sub)
        fee == PlatformFee(ord.payment_method, sub + ship)
    IN  [ord EXCEPT !.subtotal = sub, !.shipping_charges = ship,
                    !.razorpay_fee = 0, !.platform_fee = fee,
                    !.total_amount = sub + ship + ord.tax_amount + fee
                                     - ord.discount_amount]

\* --------------------------------------------------------------- inventory
\* post_save(OrderItem, created): the quantity written under the row lock,
\* or -1 when the handler raises ValueError.
update_product_quantity_clamped(current, quantity) ==
    IF current >= quantity THEN current - quantity ELSE 0

update_product_quantity_on_order_item_save(current, quantity) ==
    IF current >= quantity THEN current - quantity ELSE -1

\* post_delete(OrderItem)
restore_product_quantity_on_order_item_delete(current, quantity) ==
    current + quantity

\* pre_save(OrderItem) on an update: the quantity written under the row lock,
\* or -1 when the handler raises ValueError.
handle_order_item_quantity_changes(current, old_quantity, new_quantity) ==
    LET quantity_difference == new_quantity - old_quantity
    IN  IF quantity_difference > 0
        THEN IF current >= quantity_difference
             THEN current - quantity_difference ELSE -1
        ELSE current - quantity_difference

handle_order_status_changes_twice(qa, old_status, new_status, its) ==
    IF new_status = "cancelled" /\ old_status # "cancelled"
    THEN [p \in Products |-> qa[p] + 2 * its[p]]
    ELSE qa

\* post_save(Order): restores every item's quantity when the saved status is
\* 'cancelled' and the status stored before the save was not.
handle_order_status_changes(qa, old_status, new_status, its) ==
    IF new_status = "cancelled" /\ old_status # "cancelled"
    THEN [p \in Products |-> qa[p] + its[p]]
    ELSE qa

\* ----------------------------------------------------------------- checkout
ReqItems(req) ==
    [p \in Products |->
        IF \E i \in DOMAIN req : req[i].product = p
        THEN (CHOOSE it \in {req[i] : i \in DOMAIN req} : it.product = p).quantity
        ELSE 0]

\* transaction.atomic() around serializer.save(): the rows the transaction
\* wrote become the committed rows when the block exits normally and are
\* discarded when an exception leaves it.
transaction_autocommit(committed, written, raised) ==
    [p \in Products |-> IF written[p] # -1 THEN written[p] ELSE committed[p]]

transaction_atomic(committed, written, raised) ==
    IF raised THEN committed
    ELSE [p \in Products |-> IF written[p] # -1 THEN written[p] ELSE committed[p]]

\* A finished worker keeps what was asked, the outcome and, for a failure,
\* the position of the item that failed.
Finished(c, result) ==
    [proc[c] EXCEPT !.pc = "done",
                    !.idx = IF result = "created" THEN 0 ELSE @,
                    !.req = <<>>, !.asked = ReqItems(proc[c].req),
                    !.snap = [p \in Products |-> 0],
                    !.pending = [p \in Products |-> -1],
                    !.result = result]

\* OrderItemCreateSerializer.validate_product_id / validate for the next item
\* of the request: an unlocked read of the product row.
ValidateItem(c, req, method) ==
    /\ proc[c].pc \in {"idle", "validate"}
    /\ IF proc[c].pc = "idle" THEN TRUE
       ELSE req = proc[c].req /\ method = proc[c].method
    /\ LET i == IF proc[c].pc = "idle" THEN 1 ELSE proc[c].idx
           product == req[i].product
           quantity == req[i].quantity
           cur == [proc[c] EXCEPT !.req = req, !.method = method]
       IN  IF quantity_available[product] < quantity
           THEN /\ proc' = [proc EXCEPT ![c] =
                       [cur EXCEPT !.pc = "done", !.idx = i,
                                   !.req = <<>>, !.asked = ReqItems(req),
                                   !.snap = [p \in Products |-> 0],
                                   !.result = "invalid"]]
                /\ resp' = Response("checkout", c, FALSE, "invalid")
           ELSE /\ proc' = [proc EXCEPT ![c] =
                       [cur EXCEPT !.pc = IF i = Len(req) THEN "create" ELSE "validate",
                                   !.idx = IF i = Len(req) THEN 1 ELSE i + 1,
                                   !.snap[product] = quantity_available[product]]]
                /\ resp' = resp
    /\ UNCHANGED <<quantity_available, baseline, requesting, admins, shiprocket, orders, items, item_status,
                   history, creq, refunds>>

\* OrderCreateSerializer.create for the next item, inside the transaction of
\* CreateOrderView.post; the last item is followed by the totals, the first
\* history entry and the commit.
CreateItem(c) ==
    /\ proc[c].pc = "create"
    /\ LET i == proc[c].idx
           product == proc[c].req[i].product
           quantity == proc[c].req[i].quantity
           \* select_for_update().get(): the committed row, once the lock is free
           current == quantity_available[product]
           signal == update_product_quantity_on_order_item_save(current, quantity)
           \* product.quantity_available -= quantity; product.save() on the
           \* instance that validate_product_id loaded
           written == proc[c].snap[product] - quantity
           pending == [proc[c].pending EXCEPT ![product] = written]
           its == ReqItems(proc[c].req)
           method == proc[c].method
           created == [NoOrder EXCEPT
                          !.payment_method = method,
                          !.payment_status = "pending",
                          !.status = IF method = "cod" THEN "confirmed" ELSE "pending"]
           saved == Order_save(CheckoutTotals(created, ItemsSubtotal(its)), its)
       IN  /\ \A d \in OrderIds \ {c} : ~Holds(d, product)
           /\ IF signal = -1
              THEN \* ValueError leaves the atomic block: rollback
                   /\ proc' = [proc EXCEPT ![c] = Finished(c, "insufficient")]
                   /\ resp' = Response("checkout", c, FALSE, "insufficient")
                   /\ quantity_available' =
                         transaction_atomic(quantity_available, proc[c].pending, TRUE)
                   /\ UNCHANGED <<orders, items, item_status, history>>
              ELSE IF i < Len(proc[c].req)
              THEN /\ proc' = [proc EXCEPT ![c].idx = i + 1,
                                           ![c].pending = pending]
                   /\ UNCHANGED <<quantity_available, orders, items,
                                  item_status, history, resp>>
              ELSE /\ quantity_available' =
                         transaction_atomic(quantity_available, pending, FALSE)
                   /\ orders' = [orders EXCEPT ![c] = saved]
                   /\ items' = [items EXCEPT ![c] = its]
                   /\ item_status' = [item_status EXCEPT ![c] =
                         [p \in Products |->
                             IF its[p] > 0 THEN "confirmed" ELSE "none"]]
                   /\ history' = [history EXCEPT ![c] =
                         <<Entry(saved.status,
                                 IF saved.status = "confirmed"
                                 THEN "Order Placed" ELSE "Payment Pending")>>]
                   /\ proc' = [proc EXCEPT ![c] = Finished(c, "created")]
                   /\ resp' = Response("checkout", c, TRUE, "created")
    /\ UNCHANGED <<baseline, requesting, admins, shiprocket, creq, refunds>>

\* Two transactions each waiting for a row lock the other holds: the database
\* aborts one of them, and CreateOrderView.post answers 400.
DeadlockAbort(c) ==
    /\ proc[c].pc = "create"
    /\ \E d \in OrderIds \ {c} :
          /\ proc[d].pc = "create"
          /\ Holds(d, proc[c].req[proc[c].idx].product)
          /\ Holds(c, proc[d].req[proc[d].idx].product)
    /\ proc' = [proc EXCEPT ![c] = Finished(c, "deadlock")]
    /\ resp' = Response("checkout", c, FALSE, "deadlock")
    /\ quantity_available' =
          transaction_atomic(quantity_available, proc[c].pending, TRUE)
    /\ UNCHANGED <<baseline, requesting, admins, shiprocket, orders, items, item_status,
                   history, creq, refunds>>

CheckoutSteps(Workers, Requests, Methods) ==
    \/ \E c \in Workers, req \in Requests, method \in Methods :
          ValidateItem(c, req, method)
    \/ \E c \in Workers : CreateItem(c)

Checkout ==
    \/ CheckoutSteps(OrderIds, ItemLists, PAYMENT_METHOD_CHOICES)
    \/ \E c \in OrderIds : DeadlockAbort(c)

SingleItemLists == {s \in ItemLists : Len(s) = 1}

NextCheckout == Checkout

SpecCheckout == Init /\ [][NextCheckout]_vars

\* ------------------------------------------------------------ status update
\* OrderUpdateSerializer.validate_status
valid_transitions ==
    [s \in ORDER_STATUS_CHOICES |->
        CASE s = "pending"    -> {"confirmed", "cancelled"}
          [] s = "confirmed"  -> {"processing", "cancelled"}
          [] s = "processing" -> {"packed", "cancelled"}
          [] s = "packed"     -> {"shipped", "cancelled"}
          [] s = "shipped"    -> {"in_transit"}
          [] s = "in_transit" -> {"delivered", "cancelled"}
          [] s = "failed"     -> {"pending", "cancelled"}
          [] OTHER            -> {}]

validate_status_unchecked(current_status, value) == value \in ORDER_STATUS_CHOICES

validate_status_cancel_anywhere(current_status, value) ==
    value \in valid_transitions[current_status]
    \/ (value = "cancelled" /\ current_status \notin {"delivered", "cancelled", "refunded"})

validate_status(current_status, value) == value \in valid_transitions[current_status]

\* status_titles of OrderUpdateSerializer.update
status_titles(value) ==
    CASE value = "confirmed"  -> "Order Confirmed"
      [] value = "processing" -> "Order Processing"
      [] value = "packed"     -> "Order Packed"
      [] value = "shipped"    -> "Order Shipped"
      [] value = "in_transit" -> "Out for Delivery"
      [] value = "delivered"  -> "Order Delivered"
      [] value = "cancelled"  -> "Order Cancelled"
      [] OTHER                -> "Status Updated"

ItemsUnlocked(o) == \A p \in Products : items[o][p] > 0 => ~Locked(p)

\* UpdateOrderStatusView.patch with a status in the request
UpdateOrderStatus(o, value) ==
    /\ Exists(o)
    /\ LET old_status == orders[o].status
       IN  IF ~validate_status(old_status, value)
           THEN /\ resp' = Response("update_status", o, FALSE, "invalid")
                /\ UNCHANGED <<quantity_available, orders, history>>
           ELSE /\ Room(o, 1)
                /\ value = "cancelled" => ItemsUnlocked(o)
                /\ orders' = [orders EXCEPT ![o] =
                       Order_save([orders[o] EXCEPT !.status = value], items[o])]
                /\ quantity_available' =
                       handle_order_status_changes(quantity_available, old_status,
                                                   value, items[o])
                /\ history' = [history EXCEPT ![o] =
                       IF value # old_status
                       THEN Append(@, Entry(value, status_titles(value)))
                       ELSE @]
                /\ resp' = Response("update_status", o, TRUE, value)
    /\ UNCHANGED <<baseline, requesting, admins, shiprocket, items, item_status, creq, refunds, proc>>

\* ------------------------------------------------------ customer direct cancel
\* What a call to the carrier or the payment gateway can do: answer success,
\* answer failure, or raise
ExternalOutcomes == {"ok", "error", "raise"}

\* Order.can_be_cancelled
can_be_cancelled(ord) == ord.status \in {"confirmed", "processing", "packed"}

OrderCancelSerializer_validate_any_method(ord) == can_be_cancelled(ord)

\* OrderCancelSerializer.validate
OrderCancelSerializer_validate(ord) ==
    ord.payment_method # "cod" /\ can_be_cancelled(ord)

\* The loop "Restore product quantities" of CancelOrderView.post: every
\* item.product is read after the post_save handler has already written.
RestoreLoop(qa, its) == [p \in Products |-> qa[p] + its[p]]

\* CancelOrderView.post; carrier is the outcome of the carrier cancel call
CancelOrder(o, refund_required, carrier) ==
    /\ Exists(o)
    /\ IF ~can_be_cancelled(orders[o])
       THEN /\ resp' = Response("cancel_order", o, FALSE, "not_cancellable")
            /\ UNCHANGED <<quantity_available, orders, history, refunds>>
       ELSE IF ~OrderCancelSerializer_validate(orders[o])
       THEN /\ resp' = Response("cancel_order", o, FALSE, "invalid")
            /\ UNCHANGED <<quantity_available, orders, history, refunds>>
       ELSE IF refund_required /\ orders[o].payment_status = "completed"
               /\ refunds[o] # -1
       THEN \* OrderRefund is one-to-one: IntegrityError, the transaction rolls back
            /\ resp' = Response("cancel_order", o, FALSE, "error")
            /\ UNCHANGED <<quantity_available, orders, history, refunds>>
       ELSE /\ Room(o, 1)
            /\ ItemsUnlocked(o)
            /\ orders' = [orders EXCEPT ![o] =
                   Order_save([orders[o] EXCEPT !.status = "cancelled"], items[o])]
            /\ quantity_available' =
                   RestoreLoop(handle_order_status_changes(quantity_available,
                                   orders[o].status, "cancelled", items[o]),
                               items[o])
            /\ history' = [history EXCEPT ![o] =
                   Append(@, Entry("cancelled", "Order Cancelled"))]
            /\ refunds' = IF refund_required /\ orders[o].payment_status = "completed"
                          THEN [refunds EXCEPT ![o] = orders[o].total_amount]
                          ELSE refunds
            /\ resp' = Response("cancel_order", o, TRUE,
                                IF orders[o].shiprocket_order_id /\ carrier = "ok"
                                THEN "carrier_cancelled" ELSE "local_only")
    /\ UNCHANGED <<baseline, requesting, admins, shiprocket, items, item_status, creq, proc>>

\* ------------------------------------------------- admin edits of order items
\* OrderItemAdmin change form: quantity is editable; pre_save adjusts stock
AdminChangeItemQuantity(o, p, quantity) ==
    /\ items[o][p] > 0
    /\ quantity \in 1..MaxQty
    /\ ~Locked(p)
    /\ LET written == handle_order_item_quantity_changes(
                          quantity_available[p], items[o][p], quantity)
       IN  IF written = -1
           THEN /\ resp' = Response("change_item", o, FALSE, "insufficient")
                /\ UNCHANGED <<quantity_available, items>>
           ELSE /\ quantity_available' = [quantity_available EXCEPT ![p] = written]
                /\ items' = [items EXCEPT ![o][p] = quantity]
                /\ resp' = Response("change_item", o, TRUE, "saved")
    /\ UNCHANGED <<baseline, requesting, admins, shiprocket, orders, item_status, history, creq, refunds, proc>>

\* OrderItemAdmin delete: post_delete restores stock
AdminDeleteItem(o, p) ==
    /\ items[o][p] > 0
    /\ ~Locked(p)
    /\ quantity_available' = [quantity_available EXCEPT ![p] =
           restore_product_quantity_on_order_item_delete(@, items[o][p])]
    /\ items' = [items EXCEPT ![o][p] = 0]
    /\ item_status' = [item_status EXCEPT ![o][p] = "none"]
    /\ resp' = Response("delete_item", o, TRUE, "deleted")
    /\ UNCHANGED <<baseline, requesting, admins, shiprocket, orders, history, creq, refunds, proc>>

\* UpdateOrderStatusView.patch when OrderStatusHistory.objects.create raises
\* after super().update has saved the order: neither the view nor the
\* serializer opens a transaction, the saved status stays committed
UpdateOrderStatusInterrupted(o, value) ==
    /\ Exists(o)
    /\ LET old_status == orders[o].status
       IN  /\ validate_status(old_status, value)
           /\ value # old_status
           /\ value = "cancelled" => ItemsUnlocked(o)
           /\ orders' = [orders EXCEPT ![o] =
                  Order_save([orders[o] EXCEPT !.status = value], items[o])]
           /\ quantity_available' =
                  handle_order_status_changes(quantity_available, old_status,
                                              value, items[o])
           /\ resp' = Response("update_status", o, FALSE, "error")
    /\ UNCHANGED <<baseline, requesting, admins, shiprocket, items, item_status, history,
                   creq, refunds, proc>>

StatusUpdates ==
    \E o \in OrderIds, value \in ORDER_STATUS_CHOICES : UpdateOrderStatus(o, value)

DirectCancel ==
    \E o \in OrderIds, refund_required \in BOOLEAN, carrier \in ExternalOutcomes :
        CancelOrder(o, refund_required, carrier)

ItemEdits ==
    \/ \E o \in OrderIds, p \in Products, quantity \in 1..MaxQty :
          AdminChangeItemQuantity(o, p, quantity)
    \/ \E o \in OrderIds, p \in Products : AdminDeleteItem(o, p)

Confirm == \E o \in OrderIds : UpdateOrderStatus(o, "confirmed")

NextLifecycle == Checkout \/ Confirm \/ DirectCancel

SpecLifecycle == Init /\ [][NextLifecycle]_vars

NextInventory ==
    CheckoutSteps(OrderIds, SingleItemLists, {"upi"}) \/ Confirm \/ DirectCancel \/ ItemEdits

SpecInventory == Init /\ [][NextInventory]_vars

\* ------------------------------------------------------- shipping and payment
\* The courier charges a customer can select, and "no charges in the request"
ShippingOptions == {0, 7000}
NoShipping == -1

\* CreateRazorpayOrderView.post; created is the outcome of the gateway call
CreateRazorpayOrder(o, shipping_charges, created) ==
    /\ Exists(o)
    /\ IF orders[o].payment_method = "cod"
       THEN /\ resp' = Response("razorpay_create", o, FALSE, "cod")
            /\ UNCHANGED <<orders, history>>
       ELSE IF orders[o].payment_status = "completed"
       THEN /\ resp' = Response("razorpay_create", o, FALSE, "paid")
            /\ UNCHANGED <<orders, history>>
       ELSE IF orders[o].razorpay_order_id
       THEN /\ resp' = Response("razorpay_create", o, FALSE, "exists")
            /\ UNCHANGED <<orders, history>>
       ELSE LET fee == Quantize((orders[o].subtotal + shipping_charges)
                                   * get_percentage_for_mode(orders[o].payment_method),
                                10000)
                reshipped ==
                    IF shipping_charges # NoShipping
                    THEN Order_save(
                           [orders[o] EXCEPT
                               !.shipping_charges = shipping_charges,
                               !.platform_fee = fee,
                               !.razorpay_fee = 0,
                               !.total_amount = orders[o].subtotal + shipping_charges
                                                + orders[o].tax_amount + fee
                                                - orders[o].discount_amount],
                           items[o])
                    ELSE orders[o]
                selected ==
                    IF shipping_charges # NoShipping
                    THEN Append(history[o],
                                Entry(orders[o].status, "Shipping Option Selected"))
                    ELSE history[o]
            IN  /\ Room(o, (IF shipping_charges # NoShipping THEN 1 ELSE 0)
                            + (IF created THEN 1 ELSE 0))
                /\ IF created
                   THEN /\ orders' = [orders EXCEPT ![o] =
                               Order_save([reshipped EXCEPT !.razorpay_order_id = TRUE],
                                          items[o])]
                        /\ history' = [history EXCEPT ![o] =
                               Append(selected, Entry(orders[o].status,
                                                      "Payment Gateway Order Created"))]
                        /\ resp' = Response("razorpay_create", o, TRUE, "created")
                   ELSE /\ orders' = [orders EXCEPT ![o] = reshipped]
                        /\ history' = [history EXCEPT ![o] = selected]
                        /\ resp' = Response("razorpay_create", o, FALSE, "gateway")
    /\ UNCHANGED <<quantity_available, baseline, requesting, admins, shiprocket, items, item_status, creq,
                   refunds, proc>>

\* UpdateOrderShippingView.patch with non-negative shipping_charges
UpdateOrderShipping(o, shipping_charges) ==
    /\ Exists(o)
    /\ shipping_charges >= 0
    /\ IF orders[o].payment_status = "completed"
       THEN /\ resp' = Response("update_shipping", o, FALSE, "paid")
            /\ UNCHANGED <<orders, history>>
       ELSE /\ Room(o, 1)
            /\ orders' = [orders EXCEPT ![o] =
                   Order_save(
                       [orders[o] EXCEPT
                           !.shipping_charges = shipping_charges,
                           !.total_amount = orders[o].subtotal + shipping_charges
                                            + orders[o].tax_amount
                                            - orders[o].discount_amount],
                       items[o])]
            /\ history' = [history EXCEPT ![o] =
                   Append(@, Entry(orders[o].status, "Shipping Updated"))]
            /\ resp' = Response("update_shipping", o, TRUE, "updated")
    /\ UNCHANGED <<quantity_available, baseline, requesting, admins, shiprocket, items, item_status, creq,
                   refunds, proc>>

\* VerifyRazorpayPaymentView.post.  id_matches: the request names the order's
\* stored gateway order id; signature_valid, fetched, amount_matches and
\* captured are what the gateway answers.
VerifyRazorpayPayment(o, id_matches, signature_valid, fetched, amount_matches, captured) ==
    /\ Exists(o)
    /\ IF orders[o].payment_status = "completed"
       THEN /\ resp' = Response("verify", o, FALSE, "paid")
            /\ UNCHANGED <<orders, history>>
       ELSE IF ~(orders[o].razorpay_order_id /\ id_matches)
       THEN /\ resp' = Response("verify", o, FALSE, "mismatch")
            /\ UNCHANGED <<orders, history>>
       ELSE IF ~signature_valid
       THEN /\ resp' = Response("verify", o, FALSE, "signature")
            /\ UNCHANGED <<orders, history>>
       ELSE IF ~fetched
       THEN /\ resp' = Response("verify", o, FALSE, "fetch")
            /\ UNCHANGED <<orders, history>>
       ELSE IF ~amount_matches
       THEN /\ resp' = Response("verify", o, FALSE, "amount")
            /\ UNCHANGED <<orders, history>>
       ELSE IF ~captured
       THEN /\ resp' = Response("verify", o, FALSE, "not_captured")
            /\ UNCHANGED <<orders, history>>
       ELSE /\ Room(o, 1)
            /\ orders' = [orders EXCEPT ![o] =
                   Order_save(
                       [orders[o] EXCEPT
                           !.payment_status = "completed",
                           !.razorpay_payment_id = TRUE,
                           !.status = IF @ = "pending" THEN "confirmed" ELSE @],
                       items[o])]
            /\ history' = [history EXCEPT ![o] =
                   Append(@, Entry("confirmed", "Payment Successful"))]
            /\ resp' = Response("verify", o, TRUE, "verified")
    /\ UNCHANGED <<quantity_available, baseline, requesting, admins, shiprocket, items, item_status, creq,
                   refunds, proc>>

\* handle_razorpay_webhook, event payment.captured for the order's payment id
WebhookCaptured(o) ==
    /\ Exists(o)
    /\ orders[o].razorpay_payment_id
    /\ IF orders[o].payment_status # "completed"
       THEN /\ Room(o, 1)
            /\ orders' = [orders EXCEPT ![o] =
                   Order_save(
                       [orders[o] EXCEPT
                           !.payment_status = "completed",
                           !.status = IF @ = "pending" THEN "confirmed" ELSE @],
                       items[o])]
            /\ history' = [history EXCEPT ![o] =
                   Append(@, Entry("confirmed", "Payment Captured (Webhook)"))]
       ELSE UNCHANGED <<orders, history>>
    /\ resp' = Response("webhook_captured", o, TRUE, "processed")
    /\ UNCHANGED <<quantity_available, baseline, requesting, admins, shiprocket, items, item_status, creq,
                   refunds, proc>>

\* handle_razorpay_webhook, event payment.failed for the order's gateway order id
WebhookFailed(o) ==
    /\ Exists(o)
    /\ orders[o].razorpay_order_id
    /\ Room(o, 1)
    /\ orders' = [orders EXCEPT ![o] =
           Order_save([orders[o] EXCEPT !.payment_status = "failed"], items[o])]
    /\ history' = [history EXCEPT ![o] =
           Append(@, Entry(orders[o].status, "Payment Failed (Webhook)"))]
    /\ resp' = Response("webhook_failed", o, TRUE, "processed")
    /\ UNCHANGED <<quantity_available, baseline, requesting, admins, shiprocket, items, item_status, creq,
                   refunds, proc>>

\* ProcessPaymentView.post (legacy endpoint, cash on delivery only)
ProcessPayment(o) ==
    /\ Exists(o)
    /\ IF orders[o].payment_status = "completed"
       THEN /\ resp' = Response("process_payment", o, FALSE, "paid")
            /\ UNCHANGED <<orders, history>>
       ELSE IF orders[o].payment_method # "cod"
       THEN /\ resp' = Response("process_payment", o, FALSE, "use_razorpay")
            /\ UNCHANGED <<orders, history>>
       ELSE /\ Room(o, 1)
            /\ orders' = [orders EXCEPT ![o] =
                   Order_save([orders[o] EXCEPT !.status = "confirmed",
                                                !.payment_status = "pending"],
                              items[o])]
            /\ history' = [history EXCEPT ![o] =
                   Append(@, Entry("confirmed", "COD Order Confirmed"))]
            /\ resp' = Response("process_payment", o, TRUE, "confirmed")
    /\ UNCHANGED <<quantity_available, baseline, requesting, admins, shiprocket, items, item_status, creq,
                   refunds, proc>>

\* -------------------------------------------------------------------- carrier
\* CreateShiprocketOrderView.post; created and assigned are the outcomes of
\* the carrier's create_order and assign_courier calls
CreateShiprocketOrder(o, courier_company_id, created, assigned) ==
    /\ Exists(o)
    /\ IF orders[o].payment_status # "completed"
       THEN /\ resp' = Response("carrier_create", o, FALSE, "unpaid")
            /\ UNCHANGED <<orders, history>>
       ELSE IF orders[o].shiprocket_order_id
       THEN /\ resp' = Response("carrier_create", o, FALSE, "exists")
            /\ UNCHANGED <<orders, history>>
       ELSE IF ~courier_company_id
       THEN /\ resp' = Response("carrier_create", o, FALSE, "no_courier")
            /\ UNCHANGED <<orders, history>>
       ELSE IF created # "ok"
       THEN /\ resp' = Response("carrier_create", o, FALSE, created)
            /\ UNCHANGED <<orders, history>>
       ELSE /\ Room(o, 1)
            /\ resp' = Response("carrier_create", o, TRUE, assigned)
            /\ IF assigned = "ok"
               THEN /\ orders' = [orders EXCEPT ![o] =
                          Order_save([orders[o] EXCEPT !.shiprocket_order_id = TRUE,
                                                       !.status = "processing"],
                                     items[o])]
                    /\ history' = [history EXCEPT ![o] =
                          Append(@, Entry("processing", "Shipping Arranged"))]
               ELSE /\ orders' = [orders EXCEPT ![o] =
                          Order_save([orders[o] EXCEPT !.shiprocket_order_id = TRUE],
                                     items[o])]
                    /\ UNCHANGED history
    /\ UNCHANGED <<quantity_available, baseline, requesting, admins, shiprocket, items, item_status, creq,
                   refunds, proc>>

\* CancelShiprocketOrderView.post; carrier is the outcome of cancel_order
CancelShiprocketOrder(o, carrier) ==
    /\ Exists(o)
    /\ IF ~orders[o].shiprocket_order_id
       THEN /\ resp' = Response("carrier_cancel", o, FALSE, "no_shipment")
            /\ UNCHANGED <<quantity_available, orders, history>>
       ELSE IF orders[o].status \in {"delivered", "cancelled"}
       THEN /\ resp' = Response("carrier_cancel", o, FALSE, "not_cancellable")
            /\ UNCHANGED <<quantity_available, orders, history>>
       ELSE IF carrier # "ok"
       THEN /\ resp' = Response("carrier_cancel", o, FALSE, carrier)
            /\ UNCHANGED <<quantity_available, orders, history>>
       ELSE /\ Room(o, 1)
            /\ ItemsUnlocked(o)
            /\ orders' = [orders EXCEPT ![o] =
                   Order_save([orders[o] EXCEPT !.status = "cancelled"], items[o])]
            /\ history' = [history EXCEPT ![o] =
                   Append(@, Entry("cancelled", "Order Cancelled"))]
            /\ quantity_available' =
                   RestoreLoop(handle_order_status_changes(quantity_available,
                                   orders[o].status, "cancelled", items[o]),
                               items[o])
            /\ resp' = Response("carrier_cancel", o, TRUE, "cancelled")
    /\ UNCHANGED <<baseline, requesting, admins, shiprocket, items, item_status, creq, refunds, proc>>

\* ---------------------------------------------------------------- seller
\* allowed_transitions of SellerOrderItemSerializer.validate_item_status
validate_item_status(current_status, value) ==
    value \in (CASE current_status = "confirmed"  -> {"processing", "cancelled"}
                 [] current_status = "processing" -> {"packed", "cancelled"}
                 [] current_status = "packed"     -> {"shipped"}
                 [] current_status = "shipped"    -> {"in_transit"}
                 [] current_status = "in_transit" -> {"delivered"}
                 [] OTHER                         -> {})

\* _update_order_status_if_needed, given the item statuses after the update
update_order_status_if_needed(ord, its, statuses) ==
    IF /\ \A p \in Products : its[p] > 0 => statuses[p] = "packed"
       /\ ord.status \in {"confirmed", "processing"}
    THEN Order_save([ord EXCEPT !.status = "packed"], its)
    ELSE ord

\* SellerOrderItemUpdateView.patch with item_status in the request
SellerOrderItemUpdate(o, p, value) ==
    /\ Exists(o)
    /\ items[o][p] > 0
    /\ IF ~validate_item_status(item_status[o][p], value)
       THEN /\ resp' = Response("seller_item", o, FALSE, "invalid")
            /\ UNCHANGED <<orders, item_status, history>>
       ELSE /\ Room(o, 1)
            /\ item_status' = [item_status EXCEPT ![o][p] = value]
            /\ orders' = [orders EXCEPT ![o] =
                   update_order_status_if_needed(@, items[o], item_status'[o])]
            /\ history' = [history EXCEPT ![o] =
                   Append(@, Entry(value, "Item Status Updated"))]
            /\ resp' = Response("seller_item", o, TRUE, value)
    /\ UNCHANGED <<quantity_available, baseline, requesting, admins, shiprocket, items, creq, refunds, proc>>

\* SellerBulkOrderUpdateView.patch with item_status in update_data, for the
\* seller's items item_ids of one order; the value is written unvalidated
SellerBulkOrderUpdate(o, item_ids, value) ==
    /\ Exists(o)
    /\ item_ids # {}
    /\ \A p \in item_ids : items[o][p] > 0
    /\ Room(o, 1)
    /\ item_status' = [item_status EXCEPT ![o] =
           [p \in Products |-> IF p \in item_ids THEN value ELSE @[p]]]
    /\ orders' = [orders EXCEPT ![o] =
           update_order_status_if_needed(@, items[o], item_status'[o])]
    /\ history' = [history EXCEPT ![o] =
           Append(@, Entry(value, "Bulk Item Status Update"))]
    /\ resp' = Response("seller_bulk", o, TRUE, value)
    /\ UNCHANGED <<quantity_available, baseline, requesting, admins, shiprocket, items, creq, refunds, proc>>

\* ----------------------------------------------------------------- admin site
\* OrderAdmin.mark_as_confirmed / mark_as_processing / mark_as_shipped on a
\* selection holding order o: queryset.update sends no signal, writes no history
AdminMarkAs(o, value) ==
    /\ Exists(o)
    /\ value \in {"confirmed", "processing", "shipped"}
    /\ orders' = [orders EXCEPT ![o].status = value]
    /\ resp' = Response("admin_mark", o, TRUE, value)
    /\ UNCHANGED <<quantity_available, baseline, requesting, admins, shiprocket, items, item_status, history,
                   creq, refunds, proc>>

\* OrderAdmin change form: status is an editable field; the form saves the
\* model, so the status signals run, and no history entry is written
AdminChangeOrderStatus(o, value) ==
    /\ Exists(o)
    /\ value = "cancelled" => ItemsUnlocked(o)
    /\ orders' = [orders EXCEPT ![o] =
           Order_save([orders[o] EXCEPT !.status = value], items[o])]
    /\ quantity_available' =
           handle_order_status_changes(quantity_available, orders[o].status,
                                       value, items[o])
    /\ resp' = Response("admin_change", o, TRUE, value)
    /\ UNCHANGED <<baseline, requesting, admins, shiprocket, items, item_status, history, creq, refunds, proc>>

\* ------------------------------------------------------ cancellation requests
HasRequest(o) == creq[o].request_status # "none"

\* What the carrier's check_cancellation_eligibility can answer: success with
\* can_cancel true or false, success false, or an exception
EligibilityOutcomes == {"can_cancel", "refused", "error", "raise"}

\* The response of CheckOrderCancellationEligibilityView.get
EligibilityResponse(o, can_cancel, code) ==
    [op |-> "check_eligibility", order |-> o, ok |-> TRUE, code |-> code,
     can_cancel |-> can_cancel]

\* CheckOrderCancellationEligibilityView.get; eligibility is the outcome of
\* the carrier's check, made only for an order that has a shipment
CheckOrderCancellationEligibility(o, eligibility) ==
    /\ Exists(o)
    /\ IF orders[o].payment_method = "cod"
       THEN /\ resp' = EligibilityResponse(o, FALSE, "cod")
            /\ UNCHANGED orders
       ELSE IF orders[o].status \in {"cancelled", "refunded", "delivered"}
       THEN /\ resp' = EligibilityResponse(o, FALSE, "status")
            /\ UNCHANGED orders
       ELSE IF HasRequest(o)
       THEN /\ resp' = EligibilityResponse(o, FALSE, "exists")
            /\ UNCHANGED orders
       ELSE IF orders[o].payment_status # "completed"
       THEN /\ resp' = EligibilityResponse(o, FALSE, "unpaid")
            /\ UNCHANGED orders
       ELSE IF ~orders[o].shiprocket_order_id
       THEN /\ resp' = EligibilityResponse(o, TRUE, "can_cancel")
            /\ UNCHANGED orders
       ELSE IF eligibility \in {"can_cancel", "refused"}
       THEN /\ resp' = EligibilityResponse(o, eligibility = "can_cancel", eligibility)
            /\ orders' = [orders EXCEPT ![o] = Order_save(@, items[o])]
       ELSE /\ resp' = EligibilityResponse(o, can_be_cancelled(orders[o]), "fallback")
            /\ UNCHANGED orders
    /\ UNCHANGED <<quantity_available, baseline, requesting, admins, shiprocket, items, item_status,
                   history, creq, refunds, proc>>

\* OrderCancellationRequestCreateSerializer.validate with a valid reason
OrderCancellationRequestCreateSerializer_validate(ord, has_request) ==
    /\ can_be_cancelled(ord)
    /\ ~has_request
    /\ ord.status \notin {"cancelled", "refunded"}
    /\ ord.payment_status = "completed"

\* The row OrderCancellationRequestCreateSerializer.create inserts
OrderCancellationRequestCreateSerializer_create(ord) ==
    [NoRequest EXCEPT
        !.request_status = "pending",
        !.refund_amount = ord.total_amount,
        !.razorpay_fee_deduction = ord.razorpay_fee,
        !.platform_fee_deduction = ord.platform_fee,
        !.final_refund_amount =
            Max(0, ord.total_amount - ord.razorpay_fee - ord.platform_fee)]

\* CreateCancellationRequestView.post with a valid reason, run on its own
CreateCancellationRequest(o) ==
    /\ Exists(o)
    /\ IF orders[o].payment_method = "cod"
       THEN /\ resp' = Response("request_cancel", o, FALSE, "cod")
            /\ UNCHANGED <<creq, history>>
       ELSE IF ~OrderCancellationRequestCreateSerializer_validate(orders[o],
                                                                  HasRequest(o))
       THEN /\ resp' = Response("request_cancel", o, FALSE, "invalid")
            /\ UNCHANGED <<creq, history>>
       ELSE /\ Room(o, 1)
            /\ creq' = [creq EXCEPT ![o] =
                   OrderCancellationRequestCreateSerializer_create(orders[o])]
            /\ history' = [history EXCEPT ![o] =
                   Append(@, Entry(orders[o].status, "Cancellation Requested"))]
            /\ resp' = Response("request_cancel", o, TRUE, "created")
    /\ UNCHANGED <<quantity_available, baseline, requesting, admins, shiprocket, orders, items,
                   item_status, refunds, proc>>

\* The same view served for several requests at once.  Its first step reads
\* the order and validates: CreateCancellationRequestView.post up to
\* serializer.is_valid()
ValidateCancellationRequest(w, o) ==
    /\ requesting[w] = NotRequesting
    /\ Exists(o)
    /\ IF orders[o].payment_method = "cod"
       THEN /\ resp' = Response("request_cancel", o, FALSE, "cod")
            /\ UNCHANGED requesting
       ELSE IF ~OrderCancellationRequestCreateSerializer_validate(orders[o],
                                                                  HasRequest(o))
       THEN /\ resp' = Response("request_cancel", o, FALSE, "invalid")
            /\ UNCHANGED requesting
       ELSE /\ requesting' = [requesting EXCEPT ![w] = o]
            /\ UNCHANGED resp
    /\ UNCHANGED <<quantity_available, baseline, admins, shiprocket, orders, items,
                   item_status,
                   history, creq, refunds, proc>>

\* The order column of OrderCancellationRequest is unique: inserting a second
\* row for an order raises IntegrityError
unique_order_unenforced(existing) == FALSE

unique_order_violated(existing) == existing.request_status # "none"

\* Its second step, serializer.save(): create() inserts the request and the
\* history entry in one transaction; an IntegrityError rolls it back and the
\* view answers 500
SaveCancellationRequest(w) ==
    /\ requesting[w] # NotRequesting
    /\ LET o == requesting[w]
       IN  IF unique_order_violated(creq[o])
           THEN /\ resp' = Response("request_cancel", o, FALSE, "error")
                /\ UNCHANGED <<creq, history>>
           ELSE /\ Room(o, 1)
                /\ creq' = [creq EXCEPT ![o] =
                       OrderCancellationRequestCreateSerializer_create(orders[o])]
                /\ history' = [history EXCEPT ![o] =
                       Append(@, Entry(orders[o].status, "Cancellation Requested"))]
                /\ resp' = Response("request_cancel", o, TRUE, "created")
    /\ requesting' = [requesting EXCEPT ![w] = NotRequesting]
    /\ UNCHANGED <<quantity_available, baseline, admins, shiprocket, orders, items,
                   item_status,
                   refunds, proc>>

\* An optional amount that the admin's request leaves out
NoOverride == -1

Given(x) == x # NoOverride

\* "x or Decimal('0.00')" for an optional amount
OrZero(x) == IF Given(x) THEN x ELSE 0

\* Decimal('0.10'), the rounding tolerance of the consistency check
TOLERANCE == 10

Abs(x) == IF x < 0 THEN -x ELSE x

AdminRefundProcessSerializer_validate_unbounded_final(req, rpd, pfd, final) ==
    /\ req.request_status = "pending"
    /\ \A val \in {rpd, pfd, final} : Given(val) => val >= 0
    /\ (Given(rpd) \/ Given(pfd)) => OrZero(rpd) + OrZero(pfd) <= req.refund_amount
    /\ (Given(final) /\ (Given(rpd) \/ Given(pfd))) =>
           Abs(req.refund_amount - (OrZero(rpd) + OrZero(pfd)) - final) <= TOLERANCE

AdminRefundProcessSerializer_validate_any_status(req, rpd, pfd, final) ==
    /\ \A val \in {rpd, pfd, final} : Given(val) => val >= 0
    /\ Given(final) => final <= req.refund_amount
    /\ (Given(rpd) \/ Given(pfd)) => OrZero(rpd) + OrZero(pfd) <= req.refund_amount
    /\ (Given(final) /\ (Given(rpd) \/ Given(pfd))) =>
           Abs(req.refund_amount - (OrZero(rpd) + OrZero(pfd)) - final) <= TOLERANCE

\* AdminRefundProcessSerializer.validate (DecimalField rejects nothing here:
\* the amounts drawn are whole paise)
AdminRefundProcessSerializer_validate(req, rpd, pfd, final) ==
    /\ req.request_status = "pending"
    /\ \A val \in {rpd, pfd, final} : Given(val) => val >= 0
    /\ Given(final) => final <= req.refund_amount
    /\ (Given(rpd) \/ Given(pfd)) => OrZero(rpd) + OrZero(pfd) <= req.refund_amount
    /\ (Given(final) /\ (Given(rpd) \/ Given(pfd))) =>
           Abs(req.refund_amount - (OrZero(rpd) + OrZero(pfd)) - final) <= TOLERANCE

\* OrderCancellationRequest.approve_cancellation
approve_cancellation(req) == [req EXCEPT !.request_status = "approved"]

\* OrderCancellationRequest.mark_refund_processed
mark_refund_processed(req) ==
    [req EXCEPT !.request_status = "refund_processed", !.razorpay_refund_id = TRUE]

\* OrderCancellationRequest.reject_cancellation
reject_cancellation(req) == [req EXCEPT !.request_status = "rejected"]

\* The block "Apply admin overrides if provided" of AdminProcessRefundView.post
ApplyOverrides(req, ord, rpd, pfd, final) ==
    LET deducted ==
            IF Given(rpd) \/ Given(pfd)
            THEN [req EXCEPT
                     !.razorpay_fee_deduction = OrZero(rpd),
                     !.platform_fee_deduction = OrZero(pfd),
                     !.final_refund_amount =
                         Max(req.refund_amount - (OrZero(rpd) + OrZero(pfd)), 0)]
            ELSE req
    IN  IF Given(final)
        THEN [deducted EXCEPT
                 !.final_refund_amount = final,
                 !.razorpay_fee_deduction =
                     IF ~Given(rpd) /\ @ = 0 THEN ord.razorpay_fee ELSE @,
                 !.platform_fee_deduction =
                     IF ~Given(pfd) /\ @ = 0 THEN ord.platform_fee ELSE @]
        ELSE deducted

\* The calls AdminProcessRefundView.post makes to the payment gateway and to
\* the carrier, in the order in which its code reaches them
external_calls_cancel_first(refund_called, cancel_called) ==
    (IF cancel_called THEN <<"cancel">> ELSE <<>>)
        \o (IF refund_called THEN <<"refund">> ELSE <<>>)

external_calls(refund_called, cancel_called) ==
    (IF refund_called THEN <<"refund">> ELSE <<>>)
        \o (IF cancel_called THEN <<"cancel">> ELSE <<>>)

\* What the carrier's cancel_order answer means to AdminProcessRefundView.post
cancel_succeeded_unless_raised(carrier) == carrier # "raise"

cancel_succeeded(carrier) == carrier = "ok"

\* The history entries AdminProcessRefundView.post creates after a successful
\* refund; the message of the entry carries the gateway's refund id
RefundProcessedEntries_none(ord) == <<>>

RefundProcessedEntries(ord) == <<Entry(ord.status, "Refund Processed")>>

\* The response of AdminProcessRefundView.post: response_data carries the
\* flags refund_processed and shiprocket_cancelled; calls are the external
\* calls the request has made
RefundResponse(o, ok, code, calls, refund_processed, shiprocket_cancelled) ==
    [op |-> "process_refund", order |-> o, ok |-> ok, code |-> code,
     calls |-> calls, refund_processed |-> refund_processed,
     shiprocket_cancelled |-> shiprocket_cancelled]

\* AdminProcessRefundView.post.  rpd, pfd and final are the optional overrides,
\* refunded the outcome of the gateway's refund call and carrier the outcome
\* of the carrier's cancel call.  A Response returned from inside the
\* "with transaction.atomic()" block leaves the block normally: what was
\* written before it is committed.
\* The transaction.atomic block of AdminProcessRefundView.post, run on the
\* cancellation request and the order the view has loaded; the pre_save
\* handler reads the order's old status from the database
ProcessRefundBlock(o, cancellation_request, order, process_refund, cancel_in_shiprocket, rpd, pfd, final, refunded, carrier) ==
    LET saved == ApplyOverrides(approve_cancellation(cancellation_request), order,
                                rpd, pfd, final)
        attempted == process_refund /\ order.razorpay_payment_id
    IN  IF attempted /\ refunded # "ok"
        THEN /\ creq' = [creq EXCEPT ![o] = saved]
             /\ resp' = RefundResponse(o, FALSE, refunded,
                                       external_calls(TRUE, FALSE),
                                       FALSE, FALSE)
             /\ UNCHANGED <<quantity_available, orders, history>>
        ELSE LET refund_success == attempted
                 settled == IF refund_success
                            THEN mark_refund_processed(saved) ELSE saved
                 paid_back ==
                     IF refund_success
                     THEN Order_save([order EXCEPT
                                         !.payment_status = "refunded"],
                                     items[o])
                     ELSE order
                 recorded ==
                     IF refund_success
                     THEN history[o] \o RefundProcessedEntries(order)
                     ELSE history[o]
                 cancel_called ==
                     /\ cancel_in_shiprocket
                     /\ order.shiprocket_order_id
                     /\ (process_refund /\ refund_success) \/ ~process_refund
                 shiprocket_cancelled ==
                     cancel_called /\ cancel_succeeded(carrier)
             IN  /\ Room(o, (IF refund_success THEN 1 ELSE 0)
                             + (IF shiprocket_cancelled THEN 1 ELSE 0))
                 /\ IF shiprocket_cancelled
                    THEN /\ ItemsUnlocked(o)
                         /\ creq' = [creq EXCEPT ![o] =
                                [settled EXCEPT !.shiprocket_cancelled = TRUE]]
                         /\ orders' = [orders EXCEPT ![o] =
                                Order_save([paid_back EXCEPT
                                               !.status = "cancelled"],
                                           items[o])]
                         /\ quantity_available' =
                                handle_order_status_changes(
                                    quantity_available, orders[o].status,
                                    "cancelled", items[o])
                         /\ history' = [history EXCEPT ![o] =
                                Append(recorded,
                                       Entry("cancelled",
                                             "Order Cancelled in Shiprocket"))]
                    ELSE /\ creq' = [creq EXCEPT ![o] = settled]
                         /\ orders' = [orders EXCEPT ![o] = paid_back]
                         /\ history' = [history EXCEPT ![o] = recorded]
                         /\ UNCHANGED quantity_available
                 /\ resp' = RefundResponse(o, TRUE,
                        IF refund_success THEN "refunded" ELSE "approved",
                        external_calls(attempted, cancel_called),
                        refund_success, shiprocket_cancelled)

ProcessRefund(o, process_refund, cancel_in_shiprocket, rpd, pfd, final, refunded, carrier) ==
    /\ HasRequest(o)
    /\ IF ~AdminRefundProcessSerializer_validate(creq[o], rpd, pfd, final)
       THEN /\ resp' = RefundResponse(o, FALSE, "invalid", <<>>, FALSE, FALSE)
            /\ UNCHANGED <<quantity_available, orders, history, creq>>
       ELSE ProcessRefundBlock(o, creq[o], orders[o], process_refund,
                               cancel_in_shiprocket, rpd, pfd, final, refunded, carrier)
    /\ UNCHANGED <<baseline, requesting, admins, shiprocket, items, item_status, refunds, proc>>

\* AdminProcessRefundView.post up to the transaction: the view loads the
\* cancellation request and its order and validates the input against them
AdminProcessRefundValidate(w, o, rpd, pfd, final) ==
    /\ admins[w].pc = "idle"
    /\ HasRequest(o)
    /\ IF ~AdminRefundProcessSerializer_validate(creq[o], rpd, pfd, final)
       THEN /\ resp' = RefundResponse(o, FALSE, "invalid", <<>>, FALSE, FALSE)
            /\ UNCHANGED admins
       ELSE /\ admins' = [admins EXCEPT ![w] =
                   [pc |-> "validated", order |-> o,
                    cancellation_request |-> creq[o], order_loaded |-> orders[o],
                    rpd |-> rpd, pfd |-> pfd, final |-> final,
                    refund_called |-> FALSE]]
            /\ UNCHANGED resp
    /\ UNCHANGED <<quantity_available, baseline, requesting, shiprocket, orders, items,
                   item_status, history, creq, refunds, proc>>

\* AdminProcessRefundView.post, the transaction: it runs on the objects the
\* view loaded before, whatever has been committed since
AdminProcessRefundCommit(w, process_refund, cancel_in_shiprocket, refunded, carrier) ==
    /\ admins[w].pc = "validated"
    /\ ProcessRefundBlock(admins[w].order, admins[w].cancellation_request,
                          admins[w].order_loaded, process_refund,
                          cancel_in_shiprocket, admins[w].rpd, admins[w].pfd,
                          admins[w].final, refunded, carrier)
    /\ admins' = [admins EXCEPT ![w].pc = "done",
                                ![w].refund_called =
                                    /\ process_refund
                                    /\ admins[w].order_loaded.razorpay_payment_id]
    /\ UNCHANGED <<baseline, requesting, shiprocket, items, item_status, refunds, proc>>

\* AdminRejectCancellationView.post
RejectCancellation(o) ==
    /\ HasRequest(o)
    /\ IF creq[o].request_status # "pending"
       THEN /\ resp' = Response("reject", o, FALSE, "not_pending")
            /\ UNCHANGED <<creq, history>>
       ELSE /\ Room(o, 1)
            /\ creq' = [creq EXCEPT ![o] = reject_cancellation(@)]
            /\ history' = [history EXCEPT ![o] =
                   Append(@, Entry(orders[o].status,
                                   "Cancellation Request Rejected"))]
            /\ resp' = Response("reject", o, TRUE, "rejected")
    /\ UNCHANGED <<quantity_available, baseline, requesting, admins, shiprocket, orders, items, item_status,
                   refunds, proc>>

\* ------------------------------------------------------------ specifications
\* One customer placing one order, for one unit of one product
\* AdminRejectCancellationView.post when OrderStatusHistory.objects.create
\* raises after reject_cancellation has saved the request: the view opens no
\* transaction, the rejection stays committed and the view answers 500
RejectCancellationInterrupted(o) ==
    /\ HasRequest(o)
    /\ creq[o].request_status = "pending"
    /\ creq' = [creq EXCEPT ![o] = reject_cancellation(@)]
    /\ resp' = Response("reject", o, FALSE, "error")
    /\ UNCHANGED <<quantity_available, baseline, requesting, admins, shiprocket, orders,
                   items, item_status, history, refunds, proc>>

OneOrder == {1}
OneUnit == {<<[product |-> "p1", quantity |-> 1]>>}

Shipments ==
    \/ \E o \in OneOrder, shipping_charges \in ShippingOptions \cup {NoShipping},
          created \in BOOLEAN : CreateRazorpayOrder(o, shipping_charges, created)
    \/ \E o \in OneOrder, shipping_charges \in ShippingOptions :
          UpdateOrderShipping(o, shipping_charges)

NextTotals == CheckoutSteps(OneOrder, ItemLists, PAYMENT_METHOD_CHOICES) \/ Shipments

SpecTotals == Init /\ [][NextTotals]_vars

\* Stock that cancelling again and again would restore without end is cut
\* off at MaxStock
WithinStock(A) == A /\ \A p \in Products : quantity_available'[p] <= MaxStock

\* A specification that looks at histories of at most n entries
ShortHistory(n, A) == A /\ \A o \in OrderIds : Len(history'[o]) <= n

AdminForm ==
    \E o \in OneOrder, value \in ORDER_STATUS_CHOICES : AdminChangeOrderStatus(o, value)

\* Status updates on an order that the admin form can put into any status
NextTransitions ==
    \/ CheckoutSteps(OneOrder, OneUnit, PAYMENT_METHOD_CHOICES)
    \/ ShortHistory(MaxUpdates, WithinStock(StatusUpdates))
    \/ WithinStock(AdminForm)

SpecTransitions == Init /\ [][NextTransitions]_vars

\* Every operation that writes Order.status, on one order with a history of
\* at most MaxEvents entries
NextStatus ==
    \/ CheckoutSteps(OneOrder, OneUnit, PAYMENT_METHOD_CHOICES)
    \/ ShortHistory(MaxEvents, WithinStock(StatusUpdates))
    \/ ShortHistory(MaxEvents,
          \E o \in OneOrder, created \in BOOLEAN :
              CreateRazorpayOrder(o, NoShipping, created))
    \/ ShortHistory(MaxEvents,
          \E o \in OneOrder, answer \in BOOLEAN :
              VerifyRazorpayPayment(o, TRUE, TRUE, TRUE, answer, answer))
    \/ ShortHistory(MaxEvents, \E o \in OneOrder : WebhookCaptured(o))
    \/ ShortHistory(MaxEvents, \E o \in OneOrder : WebhookFailed(o))
    \/ ShortHistory(MaxEvents, \E o \in OneOrder : ProcessPayment(o))
    \/ ShortHistory(MaxEvents,
          \E o \in OneOrder, created, assigned \in ExternalOutcomes :
              CreateShiprocketOrder(o, TRUE, created, assigned))
    \/ ShortHistory(MaxEvents,
          \E o \in OneOrder, carrier \in ExternalOutcomes :
              WithinStock(CancelShiprocketOrder(o, carrier)))
    \/ ShortHistory(MaxEvents,
          \E o \in OneOrder, p \in Products,
             value \in {"processing", "packed", "shipped"} :
              SellerOrderItemUpdate(o, p, value))
    \/ ShortHistory(MaxEvents,
          \E o \in OneOrder, item_ids \in SUBSET Products :
              SellerBulkOrderUpdate(o, item_ids, "packed"))
    \/ ShortHistory(MaxEvents, WithinStock(DirectCancel))
    \/ ShortHistory(MaxEvents, \E o \in OneOrder : CreateCancellationRequest(o))
    \/ ShortHistory(MaxEvents,
          \E o \in OneOrder, process_refund \in BOOLEAN,
             refunded, carrier \in ExternalOutcomes :
              WithinStock(ProcessRefund(o, process_refund, TRUE, NoOverride,
                                        NoOverride, NoOverride, refunded, carrier)))
    \/ \E o \in OneOrder, value \in {"confirmed", "processing", "shipped"} :
          AdminMarkAs(o, value)

SpecStatus == Init /\ [][NextStatus]_vars

\* The overrides an admin may send with process_refund
DeductionChoices == {NoOverride, 0, 300}
FinalChoices == {NoOverride, 24900, 25200, 26000}

\* A paid order, its cancellation request and the admin's decision
NextRefund ==
    \/ CheckoutSteps(OneOrder, OneUnit, {"upi"})
    \/ \E o \in OneOrder, created \in BOOLEAN : CreateRazorpayOrder(o, NoShipping, created)
    \/ \E o \in OneOrder, answer \in BOOLEAN :
          VerifyRazorpayPayment(o, TRUE, TRUE, TRUE, answer, answer)
    \/ \E o \in OneOrder, created, assigned \in ExternalOutcomes :
          CreateShiprocketOrder(o, TRUE, created, assigned)
    \/ \E o \in OneOrder : CreateCancellationRequest(o)
    \/ \E o \in OneOrder : RejectCancellation(o)
    \/ \E o \in OneOrder, process_refund, cancel_in_shiprocket \in BOOLEAN,
          rpd, pfd \in DeductionChoices, final \in FinalChoices,
          refunded, carrier \in ExternalOutcomes :
          ProcessRefund(o, process_refund, cancel_in_shiprocket, rpd, pfd, final,
                        refunded, carrier)

SpecRefund == Init /\ [][NextRefund]_vars

\* The admin's decision taken with the amounts stored on the request
StoredAmounts == {NoOverride}

\* A paid order, possibly handed to the carrier, its cancellation request and
\* the admin's decision without overrides
NextProcessing ==
    \/ CheckoutSteps(OneOrder, OneUnit, {"upi"})
    \/ \E o \in OneOrder, created \in BOOLEAN : CreateRazorpayOrder(o, NoShipping, created)
    \/ \E o \in OneOrder, answer \in BOOLEAN :
          VerifyRazorpayPayment(o, TRUE, TRUE, TRUE, answer, answer)
    \/ \E o \in OneOrder, created, assigned \in ExternalOutcomes :
          CreateShiprocketOrder(o, TRUE, created, assigned)
    \/ \E o \in OneOrder : CreateCancellationRequest(o)
    \/ \E o \in OneOrder : RejectCancellation(o)
    \/ \E o \in OneOrder, process_refund, cancel_in_shiprocket \in BOOLEAN,
          refunded, carrier \in ExternalOutcomes :
          \E rpd, pfd, final \in StoredAmounts :
              ProcessRefund(o, process_refund, cancel_in_shiprocket, rpd, pfd, final,
                            refunded, carrier)

SpecProcessing == Init /\ [][NextProcessing]_vars

\* A paid order moving through its statuses while its customer asks for
\* cancellation from two devices at once
NextRequests ==
    \/ CheckoutSteps(OneOrder, OneUnit, PAYMENT_METHOD_CHOICES)
    \/ \E o \in OneOrder, created \in BOOLEAN : CreateRazorpayOrder(o, NoShipping, created)
    \/ \E o \in OneOrder, answer \in BOOLEAN :
          VerifyRazorpayPayment(o, TRUE, TRUE, TRUE, answer, answer)
    \/ \E o \in OneOrder, value \in {"processing", "cancelled"} :
          ShortHistory(MaxEvents, WithinStock(UpdateOrderStatus(o, value)))
    \/ \E w \in Requesters, o \in OneOrder : ValidateCancellationRequest(w, o)
    \/ \E w \in Requesters : SaveCancellationRequest(w)
    \/ \E o \in OneOrder : RejectCancellation(o)

SpecRequests == Init /\ [][NextRequests]_vars

\* An order paid or not, moved along its statuses, handed to the carrier,
\* asked to be cancelled, and the customer asking whether it can be cancelled
NextEligibility ==
    \/ CheckoutSteps(OneOrder, OneUnit, PAYMENT_METHOD_CHOICES)
    \/ \E o \in OneOrder, created \in BOOLEAN : CreateRazorpayOrder(o, NoShipping, created)
    \/ \E o \in OneOrder, answer \in BOOLEAN :
          VerifyRazorpayPayment(o, TRUE, TRUE, TRUE, answer, answer)
    \/ \E o \in OneOrder, value \in ORDER_STATUS_CHOICES :
          WithinStock(UpdateOrderStatus(o, value))
    \/ \E o \in OneOrder, created, assigned \in ExternalOutcomes :
          CreateShiprocketOrder(o, TRUE, created, assigned)
    \/ \E o \in OneOrder : CreateCancellationRequest(o)
    \/ \E o \in OneOrder, eligibility \in EligibilityOutcomes :
          CheckOrderCancellationEligibility(o, eligibility)

SpecEligibility == Init /\ [][NextEligibility]_vars

\* An order of either payment method, paid or not, with or without a
\* shipment, moved along its statuses, and its customer cancelling it directly
NextDirectCancel ==
    \/ CheckoutSteps(OneOrder, OneUnit, PAYMENT_METHOD_CHOICES)
    \/ \E o \in OneOrder, created \in BOOLEAN : CreateRazorpayOrder(o, NoShipping, created)
    \/ \E o \in OneOrder, answer \in BOOLEAN :
          VerifyRazorpayPayment(o, TRUE, TRUE, TRUE, answer, answer)
    \/ \E o \in OneOrder, created, assigned \in ExternalOutcomes :
          CreateShiprocketOrder(o, TRUE, created, assigned)
    \/ WithinStock(StatusUpdates)
    \/ WithinStock(DirectCancel)

SpecDirectCancel == Init /\ [][NextDirectCancel]_vars

\* ==================================================================== claims

OnlyAsked(c, p, n) == proc[c].asked = [x \in Products |-> IF x = p THEN n ELSE 0]

OtherWorkersIdle(o) == \A d \in OrderIds \ {o} : proc[d].pc = "idle"

\* C2: an order created by checkout and then cancelled through the customer
\* direct cancel, nothing else having touched the products, leaves every
\* product's quantity_available at the value it had before the order.
C2_CancelRestoresBaseline ==
    \A o \in OrderIds :
        (resp.op = "cancel_order" /\ resp.order = o /\ resp.ok /\ OtherWorkersIdle(o))
            => quantity_available = baseline

\* C3: two concurrent checkouts of n units each of a product whose stock
\* covers one of them but not both (stock 5 and 3 units each): exactly one
\* creates its order, the other fails for lack of stock, and the stock ends
\* at what one order leaves (2).
C3_ExactlyOneSucceeds ==
    \A p \in Products : \A n \in 1..MaxQty :
        (/\ n <= baseline[p] /\ baseline[p] < 2 * n
         /\ \A c \in OrderIds : proc[c].pc = "done" /\ OnlyAsked(c, p, n))
            => /\ Cardinality({c \in OrderIds : proc[c].result = "created"}) = 1
               /\ \A c \in OrderIds :
                     proc[c].result \in {"created", "invalid", "insufficient"}
               /\ quantity_available[p] = baseline[p] - n

C3_Witness ==
    \E p \in Products : \E n \in 1..MaxQty :
        /\ n <= baseline[p] /\ baseline[p] < 2 * n
        /\ \A c \in OrderIds : proc[c].pc = "done" /\ OnlyAsked(c, p, n)
        /\ \E c \in OrderIds : proc[c].result = "insufficient"
        /\ quantity_available[p] = baseline[p] - n

\* C4: two concurrent checkouts of a and b units of one product whose stock q
\* is at least a + b both succeed and leave q - a - b.
C4_NoLostUpdate ==
    \A p \in Products : \A a, b \in 1..MaxQty :
        (/\ baseline[p] >= a + b
         /\ proc[1].pc = "done" /\ OnlyAsked(1, p, a)
         /\ proc[2].pc = "done" /\ OnlyAsked(2, p, b))
            => /\ proc[1].result = "created" /\ proc[2].result = "created"
               /\ quantity_available[p] = baseline[p] - a - b

\* The quantity held by the line items of the orders that are not cancelled
Held(p) ==
    SumOver([o \in OrderIds |->
                IF orders[o].status \notin {"none", "cancelled"} THEN items[o][p] ELSE 0],
            OrderIds)

\* C5: quantity_available is never negative, and what was reserved so far is
\* what was released so far plus what the line items of the orders that are
\* not cancelled hold: the net decrease of the stock is the quantity held.
C5_InventoryConservation ==
    \A p \in Products :
        /\ quantity_available[p] >= 0
        /\ baseline[p] - quantity_available[p] = Held(p)

\* C6: a checkout step that does not complete the order commits nothing: no
\* product quantity, Order, OrderItem or history row changes, so a checkout
\* that fails on one item leaves no trace of the items before it.
C6_FailedCheckoutCommitsNothing ==
    [][\A c \in OrderIds :
          (proc'[c] # proc[c] /\ proc'[c].result # "created")
              => /\ quantity_available' = quantity_available
                 /\ orders'[c] = NoOrder
                 /\ items'[c] = [p \in Products |-> 0]
                 /\ history'[c] = <<>>]_vars

C6_Witness ==
    \E c, d \in OrderIds :
        /\ proc[c].pc = "done" /\ proc[c].result = "insufficient"
        /\ proc[c].idx = 2
        /\ proc[d].pc = "done" /\ proc[d].result = "created"
        /\ orders[c] = NoOrder
        /\ \A p \in Products : quantity_available[p] = baseline[p] - proc[d].asked[p]

\* C7: in every committed state the total of every order is its subtotal plus
\* shipping plus tax plus platform fee minus discount, after checkout and
\* after every operation that changes the shipping charges.
C7_TotalIsSumOfParts ==
    \A o \in OrderIds :
        Exists(o) =>
            orders[o].total_amount =
                orders[o].subtotal + orders[o].shipping_charges
                + orders[o].tax_amount + orders[o].platform_fee
                - orders[o].discount_amount

\* The transition table of the order state machine
TransitionTable ==
    [s \in ORDER_STATUS_CHOICES |->
        CASE s = "pending"    -> {"confirmed", "cancelled", "failed"}
          [] s = "confirmed"  -> {"processing", "cancelled"}
          [] s = "processing" -> {"packed", "cancelled"}
          [] s = "packed"     -> {"shipped", "cancelled"}
          [] s = "shipped"    -> {"in_transit"}
          [] s = "in_transit" -> {"delivered", "cancelled"}
          [] s = "failed"     -> {"pending", "cancelled"}
          [] OTHER            -> {}]

\* C8: a status update asking for a pair (current, requested) that is not in
\* the transition table is rejected with an error, and leaves the order's
\* status and its status history as they were.
C8_InvalidTransitionRejected ==
    [][\A o \in OrderIds, value \in ORDER_STATUS_CHOICES :
          (UpdateOrderStatus(o, value) /\ value \notin TransitionTable[orders[o].status])
              => /\ resp' = Response("update_status", o, FALSE, "invalid")
                 /\ orders'[o].status = orders[o].status
                 /\ history'[o] = history[o]]_vars

C8_Witness ==
    /\ resp = Response("update_status", 1, FALSE, "invalid")
    /\ orders[1].status = "delivered"
    /\ Len(history[1]) > 1

\* C9: the status update accepts a pair (current, requested) exactly when it
\* is in the transition table; in particular pending -> failed is accepted.
C9_AcceptedExactlyTable ==
    [][\A o \in OrderIds, value \in ORDER_STATUS_CHOICES :
          UpdateOrderStatus(o, value)
              => (resp'.ok <=> value \in TransitionTable[orders[o].status])]_vars

\* C9 as amended: the status update accepts a pair (current, requested)
\* exactly when it is in the transition table without pending -> failed
\* (pending -> {confirmed, cancelled}); pending -> failed is rejected.
C9_AcceptedExactlyTableWithoutPendingFailed ==
    [][\A o \in OrderIds, value \in ORDER_STATUS_CHOICES :
          UpdateOrderStatus(o, value)
              => (resp'.ok <=>
                    /\ value \in TransitionTable[orders[o].status]
                    /\ ~(orders[o].status = "pending" /\ value = "failed"))]_vars

C9_Witness ==
    /\ resp = Response("update_status", 1, TRUE, "delivered")
    /\ orders[1].status = "delivered"
    /\ history[1][Len(history[1])] = Entry("delivered", "Order Delivered")

\* C10: whatever operation writes it, the status of an order only ever
\* changes along the transition table, so a delivered, cancelled or refunded
\* order keeps its status for ever.
C10_StatusFollowsTable ==
    [][\A o \in OrderIds :
          (Exists(o) /\ orders'[o].status # orders[o].status)
              => orders'[o].status \in TransitionTable[orders[o].status]]_vars

\* C1: when process_refund asks for a refund and the gateway's refund call
\* fails (it answers failure, or raises), the cancellation request keeps every
\* field it had before the call and the order's history gets no new entry.
C1_FailedRefundChangesNothing ==
    [][\A o \in OrderIds :
          (/\ resp'.op = "process_refund" /\ resp'.order = o
           /\ resp'.code \in {"error", "raise"})
              => /\ creq'[o] = creq[o]
                 /\ history'[o] = history[o]]_vars

\* The history entries an operation has appended to order o
Appended(o) == SubSeq(history'[o], Len(history[o]) + 1, Len(history'[o]))

\* C11: an operation that changes the status of an existing order appends
\* exactly one history entry carrying the new status, and no operation appends
\* an entry that names a status the order is in neither before nor after it.
C11_HistoryRecordsStatus ==
    [][\A o \in OrderIds :
          Exists(o)
              => /\ Len(history'[o]) >= Len(history[o])
                 /\ orders'[o].status # orders[o].status
                       => Cardinality({i \in DOMAIN Appended(o) :
                              Appended(o)[i].status = orders'[o].status}) = 1
                 /\ \A i \in DOMAIN Appended(o) :
                       Appended(o)[i].status \in {orders[o].status, orders'[o].status}]_vars

\* C12: process_refund calls the carrier's cancel only after the gateway
\* refund has succeeded, or when no refund was asked for: never when a refund
\* was asked for and has not succeeded, and never before the refund call.
C12_CancelOnlyAfterRefund ==
    [][\A o \in OrderIds, process_refund, cancel_in_shiprocket \in BOOLEAN,
          rpd, pfd, final \in StoredAmounts,
          refunded, carrier \in ExternalOutcomes :
          ProcessRefund(o, process_refund, cancel_in_shiprocket, rpd, pfd, final,
                        refunded, carrier)
              => \A i \in DOMAIN resp'.calls :
                    resp'.calls[i] = "cancel"
                        => /\ process_refund
                                => /\ refunded = "ok"
                                   /\ \E j \in 1..(i - 1) : resp'.calls[j] = "refund"
                           /\ \A j \in DOMAIN resp'.calls :
                                 resp'.calls[j] = "refund" => j < i]_vars

C12_Witness ==
    /\ resp.op = "process_refund"
    /\ resp.calls = <<"refund", "cancel">>
    /\ creq[resp.order].razorpay_refund_id

\* C13: when the refund succeeds and the carrier's cancel then fails (it
\* answers failure, or raises), process_refund still completes: the request
\* is refund_processed and the order's payment refunded, the request's
\* carrier-cancelled flag stays false, the order keeps its status, and the
\* result reports refund_processed true and shiprocket_cancelled false.
C13_RefundKeptWhenCarrierCancelFails ==
    [][\A o \in OrderIds, rpd, pfd, final \in StoredAmounts,
          carrier \in {"error", "raise"} :
          (/\ ProcessRefund(o, TRUE, TRUE, rpd, pfd, final, "ok", carrier)
           /\ AdminRefundProcessSerializer_validate(creq[o], rpd, pfd, final)
           /\ orders[o].razorpay_payment_id
           /\ orders[o].shiprocket_order_id)
              => /\ creq'[o].request_status = "refund_processed"
                 /\ orders'[o].payment_status = "refunded"
                 /\ ~creq'[o].shiprocket_cancelled
                 /\ orders'[o].status = orders[o].status
                 /\ resp'.ok
                 /\ resp'.refund_processed
                 /\ ~resp'.shiprocket_cancelled]_vars

C13_Witness ==
    /\ resp.op = "process_refund"
    /\ resp.ok /\ resp.refund_processed /\ ~resp.shiprocket_cancelled
    /\ resp.calls = <<"refund", "cancel">>
    /\ creq[resp.order].request_status = "refund_processed"
    /\ orders[resp.order].payment_status = "refunded"
    /\ orders[resp.order].status = "processing"

\* C14: process_refund and reject on a cancellation request that is not
\* pending (approved, rejected or refund_processed) fail with an error and
\* change nothing: no request, order, stock or history row, and no call to
\* the payment gateway or the carrier.
C14_NonPendingRequestUntouched ==
    [][\A o \in OrderIds :
          (HasRequest(o) /\ creq[o].request_status # "pending")
              => /\ \A process_refund, cancel_in_shiprocket \in BOOLEAN,
                       rpd, pfd, final \in StoredAmounts,
                       refunded, carrier \in ExternalOutcomes :
                       ProcessRefund(o, process_refund, cancel_in_shiprocket, rpd,
                                     pfd, final, refunded, carrier)
                           => /\ ~resp'.ok
                              /\ resp'.calls = <<>>
                              /\ UNCHANGED <<creq, orders, history,
                                             quantity_available, refunds>>
                 /\ RejectCancellation(o)
                       => /\ ~resp'.ok
                          /\ UNCHANGED <<creq, orders, history,
                                         quantity_available, refunds>>]_vars

C14_Witness ==
    /\ resp = RefundResponse(1, FALSE, "invalid", <<>>, FALSE, FALSE)
    /\ creq[1].request_status = "refund_processed"
    /\ orders[1].payment_status = "refunded"

\* C15: every cancellation request, when it is created and after
\* process_refund with whatever overrides the operation accepts, has
\* 0 <= final_refund_amount <= refund_amount, refund_amount being the total
\* of the order taken when the request was created.
C15_FinalRefundWithinBounds ==
    \A o \in OrderIds :
        HasRequest(o)
            => /\ creq[o].refund_amount = orders[o].total_amount
               /\ 0 <= creq[o].final_refund_amount
               /\ creq[o].final_refund_amount <= creq[o].refund_amount

C15_Witness ==
    \E o \in OrderIds :
        /\ creq[o].request_status = "refund_processed"
        /\ creq[o].final_refund_amount = 25200
        /\ creq[o].refund_amount = 25500

\* What process_refund deducts when the admin leaves a deduction out: the
\* one stored on the request
EffectiveDeduction(given, stored) == IF Given(given) THEN given ELSE stored

\* C16: process_refund accepts an override of final_refund_amount only if
\* refund_amount minus the effective gateway and platform deductions differs
\* from it by at most 0.10, a deduction that is not overridden being the one
\* stored on the request; an inconsistent final amount sent without deduction
\* overrides is rejected.
C16_InconsistentFinalRejected ==
    [][\A o \in OrderIds, rpd, pfd \in DeductionChoices,
          final \in FinalChoices \ {NoOverride} :
          (/\ resp'.op = "process_refund"
           /\ HasRequest(o)
           /\ creq[o].request_status = "pending"
           /\ Abs(creq[o].refund_amount
                  - EffectiveDeduction(rpd, creq[o].razorpay_fee_deduction)
                  - EffectiveDeduction(pfd, creq[o].platform_fee_deduction)
                  - final) > TOLERANCE)
              => \A process_refund, cancel_in_shiprocket \in BOOLEAN,
                    refunded, carrier \in ExternalOutcomes :
                    ProcessRefund(o, process_refund, cancel_in_shiprocket, rpd, pfd,
                                  final, refunded, carrier)
                        => /\ resp'.code = "invalid"
                           /\ creq'[o] = creq[o]]_vars

\* C18: an order never has more than one cancellation request, also when two
\* creations for it run at the same time: a creation that reaches the insert
\* when the order already has a request fails, and the request that exists
\* and the order's history stay as they were.
C18_OneRequestPerOrder ==
    [][\A w \in Requesters :
          (/\ SaveCancellationRequest(w)
           /\ HasRequest(requesting[w]))
              => /\ ~resp'.ok
                 /\ creq' = creq
                 /\ history' = history]_vars

C18_Witness ==
    /\ resp = Response("request_cancel", 1, FALSE, "error")
    /\ creq[1].request_status = "pending"
    /\ \A w \in Requesters : requesting[w] = NotRequesting
    /\ Len(history[1]) = 4

\* C17: check_eligibility answers can_cancel = true only for an order that is
\* not cash on delivery, whose status is confirmed, processing or packed,
\* that has no cancellation request, and whose payment is completed.
C17_EligibleOnlyIfCancellable ==
    [][\A o \in OrderIds, eligibility \in EligibilityOutcomes :
          (CheckOrderCancellationEligibility(o, eligibility) /\ resp'.can_cancel)
              => /\ orders[o].payment_method # "cod"
                 /\ orders[o].status \in {"confirmed", "processing", "packed"}
                 /\ ~HasRequest(o)
                 /\ orders[o].payment_status = "completed"]_vars

\* C19: the customer's direct cancel never goes through for a cash on
\* delivery order, whatever its status, and for another order only when its
\* status is confirmed, processing or packed; a cancel that is refused
\* changes no order, no stock and no history.
C19_DirectCancelGuarded ==
    [][\A o \in OrderIds, refund_required \in BOOLEAN, carrier \in ExternalOutcomes :
          CancelOrder(o, refund_required, carrier)
              => /\ resp'.ok
                       => /\ orders[o].payment_method # "cod"
                          /\ orders[o].status \in {"confirmed", "processing", "packed"}
                 /\ ~resp'.ok
                       => UNCHANGED <<orders, quantity_available, history, refunds>>]_vars

C19_Witness ==
    /\ resp = Response("cancel_order", 1, FALSE, "invalid")
    /\ orders[1].payment_method = "cod"
    /\ orders[1].status = "packed"

\* C20: a payment.captured or payment.failed event delivered a second time
\* leaves the order's status, payment_status and history as the first
\* delivery left them, and payment.failed never changes an order whose
\* payment_status is completed or refunded.
C20_WebhookIdempotent ==
    [][\A o \in OrderIds :
          /\ (WebhookCaptured(o) /\ resp = Response("webhook_captured", o, TRUE, "processed"))
                => UNCHANGED <<orders, history>>
          /\ (WebhookFailed(o) /\ resp = Response("webhook_failed", o, TRUE, "processed"))
                => UNCHANGED <<orders, history>>
          /\ (WebhookFailed(o) /\ orders[o].payment_status \in {"completed", "refunded"})
                => UNCHANGED <<orders, history>>]_vars

\* C21: when process_refund moves the order to cancelled, the quantity of
\* every line item of the order is added back to its product's
\* quantity_available exactly once.
C21_RefundCancelRestoresOnce ==
    [][\A o \in OrderIds :
          (/\ resp'.op = "process_refund" /\ resp'.order = o
           /\ resp' # resp
           /\ orders[o].status # "cancelled"
           /\ orders'[o].status = "cancelled")
              => \A p \in Products :
                    quantity_available'[p] = quantity_available[p] + items[o][p]]_vars

C21_Witness ==
    /\ resp.op = "process_refund"
    /\ resp.shiprocket_cancelled
    /\ orders[resp.order].status = "cancelled"
    /\ items[resp.order]["p1"] = 1
    /\ quantity_available = baseline

\* C22: when the gateway refund succeeds in process_refund, the request
\* becomes refund_processed with the gateway's refund id recorded, the
\* order's payment_status becomes refunded, and exactly one history entry
\* for that refund is appended, all committed by the same step.
C22_RefundSuccessRecorded ==
    [][\A o \in OrderIds, cancel_in_shiprocket \in BOOLEAN,
          rpd, pfd, final \in StoredAmounts, carrier \in ExternalOutcomes :
          (/\ ProcessRefund(o, TRUE, cancel_in_shiprocket, rpd, pfd, final, "ok", carrier)
           /\ AdminRefundProcessSerializer_validate(creq[o], rpd, pfd, final)
           /\ orders[o].razorpay_payment_id)
              => /\ creq'[o].request_status = "refund_processed"
                 /\ creq'[o].razorpay_refund_id
                 /\ orders'[o].payment_status = "refunded"
                 /\ Cardinality({i \in DOMAIN Appended(o) :
                        Appended(o)[i].title = "Refund Processed"}) = 1
                 /\ resp'.refund_processed]_vars

C22_Witness ==
    /\ resp.op = "process_refund"
    /\ resp.refund_processed
    /\ creq[resp.order].razorpay_refund_id
    /\ orders[resp.order].payment_status = "refunded"
    /\ \E i \in DOMAIN history[resp.order] :
          history[resp.order][i].title = "Refund Processed"
    /\ ~orders[resp.order].shiprocket_order_id

\* Shipping charges a client sends with the creation of the gateway order;
\* 50.25 puts the 2% fee of a 200.00 order exactly between two paise
QuotedShipping == {0, 5025, 7000}

\* Checkout of every item list with either method, then the gateway order
\* with a quoted shipping charge
NextFees ==
    \/ CheckoutSteps(OneOrder, ItemLists, PAYMENT_METHOD_CHOICES)
    \/ \E o \in OneOrder, shipping_charges \in QuotedShipping \cup {NoShipping},
          created \in BOOLEAN : CreateRazorpayOrder(o, shipping_charges, created)

SpecFees == Init /\ [][NextFees]_vars

\* Two admins process, and reject, the cancellation request of one order at
\* the same time
NextAdmins ==
    \/ CheckoutSteps(OneOrder, OneUnit, {"upi"})
    \/ \E o \in OneOrder, created \in BOOLEAN : CreateRazorpayOrder(o, NoShipping, created)
    \/ \E o \in OneOrder, answer \in BOOLEAN :
          VerifyRazorpayPayment(o, TRUE, TRUE, TRUE, answer, answer)
    \/ \E o \in OneOrder, created, assigned \in ExternalOutcomes :
          CreateShiprocketOrder(o, TRUE, created, assigned)
    \/ \E o \in OneOrder : CreateCancellationRequest(o)
    \/ \E o \in OneOrder : RejectCancellation(o)
    \/ \E w \in Admins, o \in OneOrder, rpd, pfd, final \in StoredAmounts :
          AdminProcessRefundValidate(w, o, rpd, pfd, final)
    \/ \E w \in Admins, process_refund, cancel_in_shiprocket \in BOOLEAN,
          refunded, carrier \in ExternalOutcomes :
          AdminProcessRefundCommit(w, process_refund, cancel_in_shiprocket,
                                   refunded, carrier)

SpecAdmins == Init /\ [][NextAdmins]_vars

\* The three operations that cancel an order, on one paid and shipped order
NextCancelling ==
    \/ CheckoutSteps(OneOrder, OneUnit, {"upi"})
    \/ \E o \in OneOrder, created \in BOOLEAN : CreateRazorpayOrder(o, NoShipping, created)
    \/ \E o \in OneOrder, answer \in BOOLEAN :
          VerifyRazorpayPayment(o, TRUE, TRUE, TRUE, answer, answer)
    \/ \E o \in OneOrder, created, assigned \in ExternalOutcomes :
          CreateShiprocketOrder(o, TRUE, created, assigned)
    \/ \E o \in OneOrder : CreateCancellationRequest(o)
    \/ \E o \in OneOrder, refund_required \in BOOLEAN, carrier \in ExternalOutcomes :
          WithinStock(CancelOrder(o, refund_required, carrier))
    \/ \E o \in OneOrder, carrier \in ExternalOutcomes :
          WithinStock(CancelShiprocketOrder(o, carrier))
    \/ \E o \in OneOrder, process_refund, cancel_in_shiprocket \in BOOLEAN,
          refunded, carrier \in ExternalOutcomes :
          \E rpd, pfd, final \in StoredAmounts :
              WithinStock(ProcessRefund(o, process_refund, cancel_in_shiprocket,
                                        rpd, pfd, final, refunded, carrier))

SpecCancelling == Init /\ [][NextCancelling]_vars

\* Every operation that writes Order.payment_status of an unshipped order,
\* with every outcome of the verification's checks
NextPayment ==
    \/ CheckoutSteps(OneOrder, OneUnit, PAYMENT_METHOD_CHOICES)
    \/ \E o \in OneOrder, created \in BOOLEAN : CreateRazorpayOrder(o, NoShipping, created)
    \/ \E o \in OneOrder,
          id_matches, signature_valid, fetched, amount_matches, captured \in BOOLEAN :
          VerifyRazorpayPayment(o, id_matches, signature_valid, fetched,
                                amount_matches, captured)
    \/ \E o \in OneOrder : WebhookCaptured(o)
    \/ \E o \in OneOrder : WebhookFailed(o)
    \/ \E o \in OneOrder : ProcessPayment(o)

SpecPayment == Init /\ [][NextPayment]_vars

\* ------------------------------------------------------ the carrier client
\* What one HTTP exchange with the carrier gives: a status code, or 0 when
\* requests raises before any response arrives
HttpStatuses == {0, 200, 401, 500}

\* the methods the service's operations call _make_request with
HttpMethods == {"GET", "POST"}

program_vars ==
    <<quantity_available, baseline, orders, items, item_status, history, creq,
      refunds, proc, requesting, admins, resp>>

\* ShiprocketService.get_auth_token: the cached token when there is one, else
\* a login, which caches the token it is given or raises
get_auth_token(client, login_ok) ==
    IF client.cache # 0
    THEN [client EXCEPT !.token = client.cache]
    ELSE IF login_ok
    THEN [client EXCEPT !.issued = @ + 1, !.cache = client.issued + 1,
                        !.token = client.issued + 1, !.logins = @ + 1]
    ELSE [client EXCEPT !.token = 0, !.logins = @ + 1, !.result = "error",
                        !.pc = "idle"]

CanLogin(client) == client.cache = 0 => client.issued < MaxTokens

\* _make_request, 'if response.status_code == 401'
token_expired_on_any_failure(status_code) == status_code # 200
token_expired(status_code) == status_code = 401

\* response.raise_for_status() and the except clause
raise_for_status(status_code) == IF status_code = 200 THEN "ok" ELSE "error"

\* _make_request up to its first HTTP call: the Authorization header is built
\* with get_auth_token()
MakeRequest(method, login_ok) ==
    /\ shiprocket.pc = "idle"
    /\ CanLogin(shiprocket)
    /\ shiprocket' =
           get_auth_token([shiprocket EXCEPT !.pc = "first", !.method = method,
                               !.sent = <<>>,
                               !.statuses = <<>>, !.logins = 0,
                               !.result = "none"],
                          login_ok)
    /\ UNCHANGED program_vars

\* the first HTTP call answers: on a 401 the cached token is deleted and a new
\* one is asked for, anything else goes to raise_for_status
FirstResponse(status_code, login_ok) ==
    /\ shiprocket.pc = "first"
    /\ LET answered == [shiprocket EXCEPT !.sent = Append(@, shiprocket.token),
                                          !.statuses = Append(@, status_code)]
       IN  IF token_expired(status_code)
           THEN /\ shiprocket.issued < MaxTokens
                /\ shiprocket' =
                       get_auth_token([answered EXCEPT !.cache = 0, !.pc = "retry"],
                                      login_ok)
           ELSE shiprocket' = [answered EXCEPT !.pc = "idle",
                                  !.result = raise_for_status(status_code)]
    /\ UNCHANGED program_vars

\* the retried HTTP call answers: raise_for_status, whatever the status
RetryResponse(status_code) ==
    /\ shiprocket.pc = "retry"
    /\ shiprocket' = [shiprocket EXCEPT !.sent = Append(@, shiprocket.token),
                                        !.statuses = Append(@, status_code),
                                        !.pc = "idle",
                                        !.result = raise_for_status(status_code)]
    /\ UNCHANGED program_vars

\* the cache entry reaches TOKEN_CACHE_TIMEOUT
TokenCacheTimeout ==
    /\ shiprocket.cache # 0
    /\ shiprocket' = [shiprocket EXCEPT !.cache = 0]
    /\ UNCHANGED program_vars

NextCarrier ==
    \/ \E method \in HttpMethods, login_ok \in BOOLEAN : MakeRequest(method, login_ok)
    \/ \E status_code \in HttpStatuses, login_ok \in BOOLEAN :
          FirstResponse(status_code, login_ok)
    \/ \E status_code \in HttpStatuses : RetryResponse(status_code)
    \/ TokenCacheTimeout

SpecCarrier == Init /\ [][NextCarrier]_vars

\* Status updates and rejections, with and without a failure of the insert of
\* the history entry
NextAtomic ==
    \/ CheckoutSteps(OneOrder, OneUnit, {"upi"})
    \/ \E o \in OneOrder, created \in BOOLEAN : CreateRazorpayOrder(o, NoShipping, created)
    \/ \E o \in OneOrder, answer \in BOOLEAN :
          VerifyRazorpayPayment(o, TRUE, TRUE, TRUE, answer, answer)
    \/ \E o \in OneOrder : CreateCancellationRequest(o)
    \/ \E o \in OneOrder, value \in ORDER_STATUS_CHOICES : UpdateOrderStatus(o, value)
    \/ \E o \in OneOrder, value \in ORDER_STATUS_CHOICES :
          UpdateOrderStatusInterrupted(o, value)
    \/ \E o \in OneOrder : RejectCancellation(o)
    \/ \E o \in OneOrder : RejectCancellationInterrupted(o)

SpecAtomic == Init /\ [][NextAtomic]_vars

\* C23: in the customer's direct cancel of an eligible order, a carrier cancel
\* that fails (it answers failure, or raises) does not stop the cancellation:
\* the order ends cancelled, exactly one 'cancelled' history entry is
\* appended, the quantity of every line item is released, and, when a refund
\* is required and the payment is completed, one refund record for the
\* order's total is created.
C23_CancelSurvivesCarrierFailure ==
    [][\A o \in OrderIds, refund_required \in BOOLEAN, carrier \in {"error", "raise"} :
          (/\ CancelOrder(o, refund_required, carrier)
           /\ OrderCancelSerializer_validate(orders[o])
           /\ orders[o].shiprocket_order_id)
              => /\ orders'[o].status = "cancelled"
                 /\ Cardinality({i \in DOMAIN Appended(o) :
                        Appended(o)[i].status = "cancelled"}) = 1
                 /\ \A p \in Products :
                       quantity_available'[p] = quantity_available[p] + items[o][p]
                 /\ (refund_required /\ orders[o].payment_status = "completed")
                       => /\ refunds[o] = -1
                          /\ refunds'[o] = orders[o].total_amount]_vars

\* C24: the status-update operation and the rejection of a cancellation
\* request are atomic with their history entry: whenever one of them, failed
\* or not, leaves the order with a new status, or the request rejected, it
\* has also appended the history entry of that change.
C24_ChangeAndEntryAtomic ==
    [][\A o \in OrderIds :
          /\ (/\ \E value \in ORDER_STATUS_CHOICES :
                    UpdateOrderStatus(o, value) \/ UpdateOrderStatusInterrupted(o, value)
              /\ orders'[o].status # orders[o].status)
                 => \E i \in DOMAIN Appended(o) :
                        Appended(o)[i].status = orders'[o].status
          /\ (/\ RejectCancellation(o) \/ RejectCancellationInterrupted(o)
              /\ creq'[o].request_status # creq[o].request_status)
                 => \E i \in DOMAIN Appended(o) :
                        Appended(o)[i].title = "Cancellation Request Rejected"]_vars

\* C25: a carrier request makes at most two HTTP attempts; the second is made
\* only after a 401 on the first, with a token other than the one the 401
\* answered, which is no longer the cached one; a 401 on the retry ends the
\* request as a carrier error, with no third attempt.
C25_RetryOnceOn401 ==
    LET statuses == shiprocket.statuses
        sent == shiprocket.sent
    IN  /\ Len(statuses) <= 2
        /\ Len(sent) = Len(statuses)
        /\ Len(statuses) = 2
              => /\ statuses[1] = 401
                 /\ sent[2] # sent[1]
                 /\ shiprocket.pc = "idle"
                 /\ statuses[2] = 401 => shiprocket.result = "error"
        /\ (Len(statuses) = 1 /\ statuses[1] = 401)
              => /\ shiprocket.cache # sent[1]
                 /\ \/ shiprocket.pc = "retry" /\ shiprocket.token # sent[1]
                    \/ shiprocket.pc = "idle" /\ shiprocket.result = "error"
                          /\ shiprocket.token = 0
        /\ (Len(statuses) = 1 /\ statuses[1] # 401) => shiprocket.pc = "idle"

C25_Witness ==
    /\ Len(shiprocket.statuses) = 2
    /\ shiprocket.statuses[2] = 401
    /\ shiprocket.result = "error"

RoundHalfUp(num, den) == (2 * num + den) \div (2 * den)

\* C26: the platform fee of an order that is not cash-on-delivery is
\* (subtotal + shipping) * rate / 100 rounded half-up to 2 decimal places;
\* a cash-on-delivery order has gateway fee 0 and platform fee 0.
C26_PlatformFeeHalfUp ==
    \A o \in OrderIds :
        Exists(o) =>
            IF orders[o].payment_method = "cod"
            THEN orders[o].platform_fee = 0 /\ orders[o].razorpay_fee = 0
            ELSE orders[o].platform_fee =
                     RoundHalfUp((orders[o].subtotal + orders[o].shipping_charges)
                                     * get_percentage_for_mode(orders[o].payment_method),
                                 10000)

\* C27: checkout charges no shipping when the subtotal is above 500.00 and
\* the flat 50.00 otherwise, a subtotal of exactly 500.00 included; a UPI
\* order with subtotal 1000.00, no tax and no discount gets shipping 0,
\* platform fee 20.00 and total 1020.00.
C27_CheckoutShippingAndFee ==
    \A o \in OrderIds :
        Exists(o) =>
            /\ orders[o].shipping_charges =
                   (IF orders[o].subtotal > 50000 THEN 0 ELSE 5000)
            /\ (/\ orders[o].payment_method = "upi"
                /\ orders[o].subtotal = 100000
                /\ orders[o].tax_amount = 0
                /\ orders[o].discount_amount = 0)
                  => /\ orders[o].shipping_charges = 0
                     /\ orders[o].platform_fee = 2000
                     /\ orders[o].total_amount = 102000

C27_Witness ==
    /\ orders[1].payment_method = "upi"
    /\ orders[1].subtotal = 100000
    /\ orders[1].total_amount = 102000
    /\ orders[2].subtotal = 50000
    /\ orders[2].shipping_charges = 5000

\* The refund calls the admin workers have made to the gateway for order o
RefundCallers(o) == {w \in Admins : admins[w].order = o /\ admins[w].refund_called}

Rejected(o) ==
    \E i \in DOMAIN history[o] : history[o][i].title = "Cancellation Request Rejected"

\* C28: whatever the interleaving of concurrent process_refund invocations,
\* and of process_refund with reject, at most one refund call reaches the
\* gateway for a cancellation request, and the request never has both a
\* refund and a rejection.
C28_OneRefundOneOutcome ==
    \A o \in OrderIds :
        /\ Cardinality(RefundCallers(o)) <= 1
        /\ ~(Rejected(o) /\ RefundCallers(o) # {})

\* C29: across every sequence of the cancelling operations (the customer's
\* direct cancel, the customer's carrier cancel, the admin's process_refund)
\* on one order, the quantity of each line item is added back to its product
\* at most once: the stock never exceeds what it was before the order.
C29_RestoredAtMostOnce ==
    \A p \in Products : quantity_available[p] <= baseline[p]

\* C30: an order's payment_status becomes completed only by a verification
\* whose signature was valid for the order's stored gateway order id, whose
\* fetched amount equalled the order total and whose fetched status was
\* captured; once completed it never returns to pending or failed.
C30_CompletedOnlyByVerification ==
    [][\A o \in OrderIds :
          /\ (orders[o].payment_status # "completed"
              /\ orders'[o].payment_status = "completed")
                => /\ orders[o].razorpay_order_id
                   /\ VerifyRazorpayPayment(o, TRUE, TRUE, TRUE, TRUE, TRUE)
          /\ orders[o].payment_status = "completed"
                => orders'[o].payment_status \notin {"pending", "failed"}]_vars

====
